---- MODULE Spec2Model ----
(***************************************************************************)
(* Model of the PuzzleSolver exact cover kernel:                           *)
(*   - data_structures/dlx.py: the Dancing Links matrix (Node, RootNode,   *)
(*     ColNode, RowNode), DLX._initialize_dlx, _cover, _uncover,           *)
(*     _choose_column and the generator DLX._search / DLX.solutions;       *)
(*   - data_structures/placing_puzzle.py: PlacingBoard.solutions and the   *)
(*     PlacingSolution structural check;                                   *)
(*   - data_structures/utils.py: check_distinct, check_disjoint,           *)
(*     check_subset;                                                       *)
(*   - data_structures/grid_puzzle.py: GridSquare, GridPlacement,          *)
(*     GridPiece.get_placements / get_atoms, GridBoard.                    *)
(* Names (rows, columns, atoms, pieces) are opaque hashable identifiers in *)
(* the program; here they are naturals or strings.                         *)
(***************************************************************************)
EXTENDS Integers, Sequences, FiniteSets, TLC

VARIABLES
    row_names,            \* DLX.row_names
    col_names_primary,    \* DLX.col_names_primary
    col_names_secondary,  \* DLX.col_names_secondary
    entries,              \* DLX.entries: row name -> list of column names
    nodes,                \* the arena of Node/ColNode/RootNode objects: L, R, U, D, size, column, row
    partial_solution,     \* DLX._partial_solution
    frames,               \* the live _search() generator frames, outermost first
    status,               \* "idle" | "running" | "suspended" | "exhausted" | "abandoned" | "raised"
    emitted,              \* the lists yielded so far by the current solutions() call
    prev_emitted,         \* the lists yielded by the previous solutions() call
    prev_end,             \* how the previous call ended: "none" | "exhausted" | "abandoned"
    hashable,             \* whether the board's Item subclasses define __hash__
    N,                    \* GridBoard.N
    M,                    \* GridBoard.M
    atoms_primary,        \* PlacingBoard.atoms_primary
    atoms_secondary,      \* PlacingBoard.atoms_secondary
    pieces_primary,       \* PlacingBoard.pieces_primary
    pieces_secondary,     \* PlacingBoard.pieces_secondary
    pieces_tertiary,      \* PlacingBoard.pieces_tertiary
    rows_dict,            \* PlacingBoard.rows_dict: row name -> (piece, placement)
    board_pc,             \* PlacingBoard.solutions(): "none" | "new" | "suspended" | "done" | "error"
    board_error,          \* the exception that ended solutions(), or "ok"
    dlx_pending,          \* what self.dlx.solutions() has still to yield
    yielded,              \* the placed_pieces of the Solutions yielded so far
    solution,             \* the last PlacingSolution(board, placed_pieces) constructed directly
    call,                 \* a constructor or method called on its own: its name and arguments
    outcome,              \* what that call returned or raised
    A,                    \* ArrayDLX.A
    col_names,            \* ArrayDLX.col_names
    A_secondary           \* ArrayDLX.A_secondary

dlx_vars == <<row_names, col_names_primary, col_names_secondary, entries, nodes,
              partial_solution, frames, status, emitted, prev_emitted, prev_end>>

board_vars == <<hashable, N, M, atoms_primary, atoms_secondary, pieces_primary,
                pieces_secondary, pieces_tertiary, rows_dict, board_pc, board_error,
                dlx_pending, yielded, solution>>

array_vars == <<A, col_names, A_secondary>>

api_vars == <<call, outcome, array_vars>>

vars == <<dlx_vars, board_vars, api_vars>>

\* ---------------------------------------------------------------- bounds
MaxRows == 2
MaxCols == 3

\* ---------------------------------------------------------------- helpers
Range(s) == {s[i] : i \in DOMAIN s}

RECURSIVE SetToSeq(_)
\* the elements of a finite set of integers in increasing order
SetToSeq(S) ==
    IF S = {} THEN <<>>
    ELSE LET x == CHOOSE y \in S : \A z \in S : y <= z
         IN <<x>> \o SetToSeq(S \ {x})

IndexOf(s, x) == CHOOSE i \in 1..Len(s) : s[i] = x

\* ---------------------------------------------------------------- the arena
\* RootNode(): the root sentinel is node 0; the ColNode of the k-th column
\* (primary columns first) is node k; the Node objects follow in creation order.
Root == 0

NpInf == -1

\* col_nodes_dict[col_name] of _initialize_dlx
ColNodeOf(cp, cs, col_name) == IndexOf(cp \o cs, col_name)

RECURSIVE FlatEntries(_, _, _)
\* the (row, column) pairs in the order _initialize_dlx creates their nodes;
\* first marks the node created while prev_node is None
FlatEntries(rn, en, k) ==
    IF k > Len(rn) THEN <<>>
    ELSE [j \in 1..Len(en[rn[k]]) |->
             [row |-> rn[k], col |-> en[rn[k]][j], first |-> (j = 1)]]
         \o FlatEntries(rn, en, k + 1)

\* Node(), ColNode(name), RootNode(): every link points to the object itself
BlankNodes(n, nc) ==
    [L |-> [x \in 0..(n - 1) |-> x],
     R |-> [x \in 0..(n - 1) |-> x],
     U |-> [x \in 0..(n - 1) |-> x],
     D |-> [x \in 0..(n - 1) |-> x],
     size |-> [c \in 1..nc |-> 0],
     column |-> [x \in 0..(n - 1) |-> Root],
     row |-> [x \in 0..(n - 1) |-> 0]]

RECURSIVE InsertPrimary(_, _, _)
\* thread the primary headers 1..np into the root's list, appending left of root
InsertPrimary(m, k, np) ==
    IF k > np THEN m
    ELSE LET m1 == [m EXCEPT !.R[m.L[Root]] = k]
             m2 == [m1 EXCEPT !.L[k] = m1.L[Root]]
             m3 == [m2 EXCEPT !.R[k] = Root]
             m4 == [m3 EXCEPT !.L[Root] = k]
         IN InsertPrimary(m4, k + 1, np)

RECURSIVE InsertNodes(_, _, _, _, _, _)
\* create and link the node of flat[k]; prev is the previous node of its row
InsertNodes(m, flat, k, nc, cp, cs) ==
    IF k > Len(flat) THEN m
    ELSE LET new_node == nc + k
             col_node == ColNodeOf(cp, cs, flat[k].col)
             prev_node == IF flat[k].first THEN new_node ELSE new_node - 1
             a1 == [m EXCEPT !.row[new_node] = flat[k].row,
                             !.column[new_node] = col_node,
                             !.size[col_node] = @ + 1]
             \* insert into the column's linked list
             b1 == [a1 EXCEPT !.D[a1.U[col_node]] = new_node]
             b2 == [b1 EXCEPT !.U[new_node] = b1.U[col_node]]
             b3 == [b2 EXCEPT !.D[new_node] = col_node]
             b4 == [b3 EXCEPT !.U[col_node] = new_node]
             \* insert into the row's linked list
             c1 == [b4 EXCEPT !.R[b4.L[prev_node]] = new_node]
             c2 == [c1 EXCEPT !.L[new_node] = c1.L[prev_node]]
             c3 == [c2 EXCEPT !.R[new_node] = prev_node]
             c4 == [c3 EXCEPT !.L[prev_node] = new_node]
         IN InsertNodes(c4, flat, k + 1, nc, cp, cs)

\* InitializeDlx with the secondary headers threaded into the header list too
InitializeDlxAllThreaded(rn, cp, cs, en) ==
    LET flat == FlatEntries(rn, en, 1)
        nc == Len(cp) + Len(cs)
        m0 == BlankNodes(1 + nc + Len(flat), nc)
        m1 == InsertPrimary(m0, 1, nc)
    IN InsertNodes(m1, flat, 1, nc, cp, cs)

InitializeDlx(rn, cp, cs, en) ==
    LET flat == FlatEntries(rn, en, 1)
        nc == Len(cp) + Len(cs)
        m0 == BlankNodes(1 + nc + Len(flat), nc)
        m1 == InsertPrimary(m0, 1, Len(cp))
    IN InsertNodes(m1, flat, 1, nc, cp, cs)

\* ---------------------------------------------------------------- cover / uncover
RECURSIVE CoverRowKeepSize(_, _, _)
\* the inner loop of _cover without the size bookkeeping
CoverRowKeepSize(m, node, right_node) ==
    IF right_node = node THEN m
    ELSE LET m1 == [m EXCEPT !.U[m.D[right_node]] = m.U[right_node]]
             m2 == [m1 EXCEPT !.D[m1.U[right_node]] = m1.D[right_node]]
         IN CoverRowKeepSize(m2, node, m2.R[right_node])

RECURSIVE CoverRowHalf(_, _, _)
\* the inner loop of _cover without right_node.U.D = right_node.D
CoverRowHalf(m, node, right_node) ==
    IF right_node = node THEN m
    ELSE LET m1 == [m EXCEPT !.U[m.D[right_node]] = m.U[right_node]]
             m3 == [m1 EXCEPT !.size[m1.column[right_node]] = @ - 1]
         IN CoverRowHalf(m3, node, m3.R[right_node])

RECURSIVE CoverRow(_, _, _)
\* the inner loop of _cover: unlink the row-mates of node from their columns
CoverRow(m, node, right_node) ==
    IF right_node = node THEN m
    ELSE LET m1 == [m EXCEPT !.U[m.D[right_node]] = m.U[right_node]]
             m2 == [m1 EXCEPT !.D[m1.U[right_node]] = m1.D[right_node]]
             m3 == [m2 EXCEPT !.size[m2.column[right_node]] = @ - 1]
         IN CoverRow(m3, node, m3.R[right_node])

RECURSIVE CoverColumn(_, _, _)
\* the outer loop of _cover: the nodes of the column, top to bottom
CoverColumn(m, col_node, node) ==
    IF node = col_node THEN m
    ELSE LET m1 == CoverRow(m, node, m.R[node])
         IN CoverColumn(m1, col_node, m1.D[node])

\* _cover that leaves the header in the header list
CoverKeepHeader(m, col_node) == CoverColumn(m, col_node, m.D[col_node])

\* _cover without its loop over the column: only the header is unlinked
CoverHeaderOnly(m, col_node) ==
    LET m1 == [m EXCEPT !.L[m.R[col_node]] = m.L[col_node]]
    IN [m1 EXCEPT !.R[m1.L[col_node]] = m1.R[col_node]]

Cover(m, col_node) ==
    LET m1 == [m EXCEPT !.L[m.R[col_node]] = m.L[col_node]]
        m2 == [m1 EXCEPT !.R[m1.L[col_node]] = m1.R[col_node]]
    IN CoverColumn(m2, col_node, m2.D[col_node])

RECURSIVE UncoverRowKeepSize(_, _, _)
\* the inner loop of _uncover without the size bookkeeping
UncoverRowKeepSize(m, node, left_node) ==
    IF left_node = node THEN m
    ELSE LET m2 == [m EXCEPT !.D[m.U[left_node]] = left_node]
             m3 == [m2 EXCEPT !.U[m2.D[left_node]] = left_node]
         IN UncoverRowKeepSize(m3, node, m3.L[left_node])

RECURSIVE UncoverRow(_, _, _)
\* the inner loop of _uncover: relink the row-mates of node, right to left
UncoverRow(m, node, left_node) ==
    IF left_node = node THEN m
    ELSE LET m1 == [m EXCEPT !.size[m.column[left_node]] = @ + 1]
             m2 == [m1 EXCEPT !.D[m1.U[left_node]] = left_node]
             m3 == [m2 EXCEPT !.U[m2.D[left_node]] = left_node]
         IN UncoverRow(m3, node, m3.L[left_node])

RECURSIVE UncoverColumn(_, _, _)
\* the outer loop of _uncover: the nodes of the column, bottom to top
UncoverColumn(m, col_node, node) ==
    IF node = col_node THEN m
    ELSE LET m1 == UncoverRow(m, node, m.L[node])
         IN UncoverColumn(m1, col_node, m1.U[node])

\* _uncover without its last two lines: the header is not relinked
UncoverNoRelink(m, col_node) == UncoverColumn(m, col_node, m.U[col_node])

\* _uncover without "left_node.column.size += 1"
UncoverLoseSize(m, col_node) ==
    LET m1 == UncoverColumn(m, col_node, m.U[col_node])
        m2 == [m1 EXCEPT !.R[m1.L[col_node]] = col_node]
    IN [m2 EXCEPT !.L[m2.R[col_node]] = col_node, !.size = m.size]

\* _uncover that changes nothing
UncoverNothing(m, col_node) == m

Uncover(m, col_node) ==
    LET m1 == UncoverColumn(m, col_node, m.U[col_node])
        m2 == [m1 EXCEPT !.R[m1.L[col_node]] = col_node]
    IN [m2 EXCEPT !.L[m2.R[col_node]] = col_node]

\* ---------------------------------------------------------------- _choose_column
RECURSIVE ChooseFromLast(_, _, _, _)
\* the loop of _choose_column with <= in place of <
ChooseFromLast(m, col_node, min_size, chosen_column) ==
    IF col_node = Root THEN chosen_column
    ELSE IF min_size = NpInf \/ m.size[col_node] <= min_size
         THEN ChooseFromLast(m, m.R[col_node], m.size[col_node], col_node)
         ELSE ChooseFromLast(m, m.R[col_node], min_size, chosen_column)

RECURSIVE ChooseFrom(_, _, _, _)
ChooseFrom(m, col_node, min_size, chosen_column) ==
    IF col_node = Root THEN chosen_column
    ELSE IF min_size = NpInf \/ m.size[col_node] < min_size
         THEN ChooseFrom(m, m.R[col_node], m.size[col_node], col_node)
         ELSE ChooseFrom(m, m.R[col_node], min_size, chosen_column)

ChooseColumn(m) == ChooseFrom(m, m.R[Root], NpInf, Root)

\* ---------------------------------------------------------------- the generator
NewFrame == [pc |-> "start", col_node |-> Root, node |-> Root, ptr |-> Root]

Top == frames[Len(frames)]

SetTop(f) == [frames EXCEPT ![Len(frames)] = f]

\* the frames after the innermost _search() returns: its caller goes on after
\* "yield from self._search()" with left_node = node.L
ReturnFrames(m) ==
    LET rest == SubSeq(frames, 1, Len(frames) - 1)
    IN IF rest = <<>> THEN rest
       ELSE LET caller == rest[Len(rest)]
            IN [rest EXCEPT ![Len(rest)] =
                   [caller EXCEPT !.pc = "uncover_row", !.ptr = m.L[caller.node]]]

ReturnStatus == IF Len(frames) = 1 THEN "exhausted" ELSE "running"

\* the rows of a sparse 0/1 matrix over nc columns: a row lists distinct
\* columns, in column order
RowLists(nc) == {SetToSeq(S) : S \in SUBSET (1..nc)}

\* nothing has been called on its own
NoCall == [method |-> "none"]

NoOutcome == [err |-> "none"]

\* Python's None, and a value x given for an optional argument
None == <<>>
Some(x) == <<x>>

\* the object is not an ArrayDLX
NoArray == A = None /\ col_names = None /\ A_secondary = None

\* no PlacingSolution has been constructed directly
NoSolution == [placed_pieces |-> <<>>, result |-> "none"]

\* a DLX instance used on its own, as tests/test_dlx.py does: there is no board
NoBoard ==
    /\ hashable = TRUE
    /\ N = 0
    /\ M = 0
    /\ atoms_primary = <<>>
    /\ atoms_secondary = <<>>
    /\ pieces_primary = <<>>
    /\ pieces_secondary = <<>>
    /\ pieces_tertiary = <<>>
    /\ rows_dict = <<>>
    /\ board_pc = "none"
    /\ board_error = "ok"
    /\ dlx_pending = <<>>
    /\ yielded = <<>>
    /\ solution = NoSolution

Init ==
    \E nr \in 0..MaxRows, np \in 0..MaxCols :
      \E ns \in 0..(MaxCols - np), en \in [1..nr -> RowLists(MaxCols)] :
        /\ \A r \in 1..nr : Range(en[r]) \subseteq 1..(np + ns)
        /\ row_names = [i \in 1..nr |-> i]
        /\ col_names_primary = [i \in 1..np |-> i]
        /\ col_names_secondary = [i \in 1..ns |-> np + i]
        /\ entries = en
        /\ nodes = InitializeDlx([i \in 1..nr |-> i], [i \in 1..np |-> i],
                                 [i \in 1..ns |-> np + i], en)
        /\ partial_solution = <<>>
        /\ frames = <<>>
        /\ status = "idle"
        /\ emitted = <<>>
        /\ prev_emitted = <<>>
        /\ prev_end = "none"
        /\ NoBoard
        /\ call = NoCall
        /\ outcome = NoOutcome
        /\ NoArray

schema_vars == <<row_names, col_names_primary, col_names_secondary, entries>>

\* DLX.solutions(): reset the partial solution and create the generator
Solutions ==
    /\ status \in {"idle", "exhausted", "abandoned"}
    /\ partial_solution' = <<>>
    /\ frames' = <<NewFrame>>
    /\ status' = "running"
    /\ prev_emitted' = emitted
    /\ prev_end' = IF status = "idle" THEN "none" ELSE status
    /\ emitted' = <<>>
    /\ UNCHANGED <<schema_vars, nodes, board_vars, api_vars>>

\* a yield that does not wait for the header list to be empty
YieldEarly ==
    /\ status = "running"
    /\ Top.pc = "start"
    /\ emitted' = Append(emitted, partial_solution)
    /\ status' = "suspended"
    /\ frames' = SetTop([Top EXCEPT !.pc = "yielded"])
    /\ UNCHANGED <<schema_vars, nodes, partial_solution, prev_emitted, prev_end, board_vars, api_vars>>

\* _search, lines 205-206: no column left in the header list, yield a copy
Yield ==
    /\ status = "running"
    /\ Top.pc = "start"
    /\ nodes.R[Root] = Root
    /\ emitted' = Append(emitted, partial_solution)
    /\ status' = "suspended"
    /\ frames' = SetTop([Top EXCEPT !.pc = "yielded"])
    /\ UNCHANGED <<schema_vars, nodes, partial_solution, prev_emitted, prev_end, board_vars, api_vars>>

\* _search, lines 210-214: pick and cover the column, go to its first node
ChooseAndCover ==
    /\ status = "running"
    /\ Top.pc = "start"
    /\ nodes.R[Root] # Root
    /\ LET col_node == ChooseColumn(nodes)
           m == Cover(nodes, col_node)
       IN /\ nodes' = m
          /\ frames' = SetTop([pc |-> "loop", col_node |-> col_node,
                               node |-> m.D[col_node], ptr |-> Root])
    /\ UNCHANGED <<schema_vars, partial_solution, status, emitted, prev_emitted, prev_end, board_vars, api_vars>>

\* next() on the suspended generator: line 207 returns from the innermost frame
Pull ==
    /\ status = "suspended"
    /\ frames' = ReturnFrames(nodes)
    /\ status' = ReturnStatus
    /\ UNCHANGED <<schema_vars, nodes, partial_solution, emitted, prev_emitted, prev_end, board_vars, api_vars>>

\* the consumer drops the suspended generator: close() raises GeneratorExit at
\* the yield, and no finally block runs an uncover
Abandon ==
    /\ status = "suspended"
    /\ frames' = <<>>
    /\ status' = "abandoned"
    /\ UNCHANGED <<schema_vars, nodes, partial_solution, emitted, prev_emitted, prev_end, board_vars, api_vars>>

\* _search, lines 215-219: branch on the row of node
BranchRow ==
    /\ status = "running"
    /\ Top.pc = "loop"
    /\ Top.node # Top.col_node
    /\ partial_solution' = Append(partial_solution, nodes.row[Top.node])
    /\ frames' = SetTop([Top EXCEPT !.pc = "cover_row", !.ptr = nodes.R[Top.node]])
    /\ UNCHANGED <<schema_vars, nodes, status, emitted, prev_emitted, prev_end, board_vars, api_vars>>

\* _search, lines 220-222: cover the column of the next row-mate
CoverRowMate ==
    /\ status = "running"
    /\ Top.pc = "cover_row"
    /\ Top.ptr # Top.node
    /\ nodes' = Cover(nodes, nodes.column[Top.ptr])
    /\ frames' = SetTop([Top EXCEPT !.ptr = nodes.R[Top.ptr]])
    /\ UNCHANGED <<schema_vars, partial_solution, status, emitted, prev_emitted, prev_end, board_vars, api_vars>>

\* _search, line 225: the recursive call
Recurse ==
    /\ status = "running"
    /\ Top.pc = "cover_row"
    /\ Top.ptr = Top.node
    /\ frames' = Append(SetTop([Top EXCEPT !.pc = "recurse"]), NewFrame)
    /\ UNCHANGED <<schema_vars, nodes, partial_solution, status, emitted, prev_emitted, prev_end, board_vars, api_vars>>

\* _search, lines 229-231: uncover the column of the next row-mate, right to left
UncoverRowMate ==
    /\ status = "running"
    /\ Top.pc = "uncover_row"
    /\ Top.ptr # Top.node
    /\ nodes' = Uncover(nodes, nodes.column[Top.ptr])
    /\ frames' = SetTop([Top EXCEPT !.ptr = nodes.L[Top.ptr]])
    /\ UNCHANGED <<schema_vars, partial_solution, status, emitted, prev_emitted, prev_end, board_vars, api_vars>>

\* lines 233-234 without self._partial_solution.pop()
NextRowNoPop ==
    /\ status = "running"
    /\ Top.pc = "uncover_row"
    /\ Top.ptr = Top.node
    /\ frames' = SetTop([Top EXCEPT !.pc = "loop", !.node = nodes.D[Top.node]])
    /\ UNCHANGED <<schema_vars, nodes, partial_solution, status, emitted, prev_emitted,
                   prev_end, board_vars, api_vars>>

\* _search, lines 233-234: pop the row name and go down the column
NextRow ==
    /\ status = "running"
    /\ Top.pc = "uncover_row"
    /\ Top.ptr = Top.node
    /\ partial_solution' = SubSeq(partial_solution, 1, Len(partial_solution) - 1)
    /\ frames' = SetTop([Top EXCEPT !.pc = "loop", !.node = nodes.D[Top.node]])
    /\ UNCHANGED <<schema_vars, nodes, status, emitted, prev_emitted, prev_end, board_vars, api_vars>>

\* _search, line 237: the column is exhausted, uncover it and return
UncoverChosen ==
    /\ status = "running"
    /\ Top.pc = "loop"
    /\ Top.node = Top.col_node
    /\ LET m == Uncover(nodes, Top.col_node)
       IN /\ nodes' = m
          /\ frames' = ReturnFrames(m)
    /\ status' = ReturnStatus
    /\ UNCHANGED <<schema_vars, partial_solution, emitted, prev_emitted, prev_end, board_vars, api_vars>>

Next ==
    \/ Solutions
    \/ Yield
    \/ ChooseAndCover
    \/ Pull
    \/ BranchRow
    \/ CoverRowMate
    \/ Recurse
    \/ UncoverRowMate
    \/ NextRow
    \/ UncoverChosen

Spec == Init /\ [][Next]_vars

\* a step of an enumeration in progress: the generator runs on to its next
\* yield or to its end, or the consumer asks for the next solution
Step ==
    \/ Yield
    \/ ChooseAndCover
    \/ Pull
    \/ BranchRow
    \/ CoverRowMate
    \/ Recurse
    \/ UncoverRowMate
    \/ NextRow
    \/ UncoverChosen

\* the consumer may also drop an enumeration at a suspension point
NextAbandon == Next \/ Abandon

SpecAbandon == Init /\ [][NextAbandon]_vars

TypeOK == status \in {"idle", "running", "suspended", "exhausted", "abandoned", "raised"}

\* ---------------------------------------------------------------- utils.py
\* the first exception raised by a sequence of checks, or "ok"
FirstError(results) ==
    IF \E k \in 1..Len(results) : results[k] # "ok"
    THEN results[CHOOSE k \in 1..Len(results) :
                     /\ results[k] # "ok"
                     /\ \A l \in 1..(k - 1) : results[l] = "ok"]
    ELSE "ok"

\* Item.__eq__ compares names
Names(objs) == [k \in 1..Len(objs) |-> objs[k].name]

\* check_distinct(objs) on names; h tells whether the objects can be hashed
\* (value_counts hashes them); an empty list passes
CheckDistinct(names, h) ==
    IF names = <<>> THEN "ok"
    ELSE IF ~h THEN "TypeError"
    ELSE IF \E k, l \in 1..Len(names) : k # l /\ names[k] = names[l] THEN "AssertionError"
    ELSE "ok"

\* check_disjoint(objs1, objs2): set() hashes the elements of both lists
CheckDisjoint(names1, names2, h) ==
    IF ~h /\ (names1 # <<>> \/ names2 # <<>>) THEN "TypeError"
    ELSE IF Range(names1) \cap Range(names2) # {} THEN "AssertionError"
    ELSE "ok"

\* check_subset(subset, superset): set(subset) - set(superset) must be empty
CheckSubset(subset, superset, h) ==
    IF ~h /\ (subset # <<>> \/ superset # <<>>) THEN "TypeError"
    ELSE IF Range(subset) \ Range(superset) # {} THEN "AssertionError"
    ELSE "ok"

\* ---------------------------------------------------------------- grid_puzzle.py
Digits == <<"0", "1", "2", "3", "4", "5", "6", "7", "8", "9">>

RECURSIVE NatStr(_)
NatStr(n) == IF n < 10 THEN Digits[n + 1] ELSE NatStr(n \div 10) \o Digits[(n % 10) + 1]

\* str(i) of a Python int
IntStr(i) == IF i < 0 THEN "-" \o NatStr(-i) ELSE NatStr(i)

GridSquare(i, j) == [name |-> "square_" \o IntStr(i) \o "_" \o IntStr(j), i |-> i, j |-> j]

ORIENTATIONS == <<"U", "R", "D", "L", "FU", "FR", "FD", "FL">>

GridPlacement(i, j, orientation) ==
    [name |-> "placement_" \o IntStr(i) \o "_" \o IntStr(j) \o "_" \o orientation,
     i |-> i, j |-> j, orientation |-> orientation]

GridPiece(piece_id, coords) == [name |-> "piece-" \o piece_id, coords |-> coords]

GridSmallLPiece(piece_id) == GridPiece(piece_id, << <<0, 0>>, <<1, 0>>, <<0, 1>> >>)

GridTPiece(piece_id) == GridPiece(piece_id, << <<0, 0>>, <<-1, 0>>, <<1, 0>>, <<0, -1>> >>)

GridTwoPiece(piece_id) == GridPiece(piece_id, << <<0, 0>>, <<1, 0>> >>)

GridThreePiece(piece_id) == GridPiece(piece_id, << <<-1, 0>>, <<0, 0>>, <<1, 0>> >>)

\* isinstance(x, PlacingPiece): atoms carry no coords
IsPiece(x) == "coords" \in DOMAIN x

\* placement.orientation[0] == "F": the flip of the i axis, [[-1, 0], [0, 1]] @ c
FlipCoord(c, orientation) ==
    IF orientation \in {"FU", "FR", "FD", "FL"} THEN <<-c[1], c[2]>> ELSE c

\* the rotations with the matrices of "R" and "L" exchanged
RotateCoordSwapped(c, orientation) ==
    CASE orientation \in {"U", "FU"} -> c
      [] orientation \in {"R", "FR"} -> <<-c[2], c[1]>>
      [] orientation \in {"D", "FD"} -> <<-c[1], -c[2]>>
      [] orientation \in {"L", "FL"} -> <<c[2], -c[1]>>

\* the rotation selected by placement.orientation[-1]
RotateCoord(c, orientation) ==
    CASE orientation \in {"U", "FU"} -> c
      [] orientation \in {"R", "FR"} -> <<c[2], -c[1]>>
      [] orientation \in {"D", "FD"} -> <<-c[1], -c[2]>>
      [] orientation \in {"L", "FL"} -> <<-c[2], c[1]>>

\* GridPiece.get_atoms(board, placement): flip, rotate, translate
GetAtoms(piece, placement) ==
    [k \in 1..Len(piece.coords) |->
        LET c == RotateCoord(FlipCoord(piece.coords[k], placement.orientation),
                             placement.orientation)
        IN GridSquare(c[1] + placement.i, c[2] + placement.j)]

\* int(self.coords_array.max()): the largest entry of the coordinate array
CoordsMax(piece) ==
    LET vals == {piece.coords[k][1] : k \in 1..Len(piece.coords)}
                \cup {piece.coords[k][2] : k \in 1..Len(piece.coords)}
    IN CHOOSE v \in vals : \A w \in vals : w <= v

\* tuple(sorted(atom.name for atom in atoms)): equal tuples are equal multisets
SortedNames(atoms) ==
    [n \in Range(Names(atoms)) |-> Cardinality({k \in 1..Len(atoms) : atoms[k].name = n})]

\* the loops of get_placements without placements_history: every on-board
\* candidate is appended
PlacementsLoopNoHistory(piece, r) ==
    LET side == IF N + 2 * r > 0 THEN N + 2 * r ELSE 0
        Candidate(c) == GridPlacement((c \div (8 * side)) - r, ((c \div 8) % side) - r,
                                      ORIENTATIONS[(c % 8) + 1])
        order == SetToSeq({c \in 0..(side * side * 8 - 1) :
                              Range(Names(GetAtoms(piece, Candidate(c))))
                                  \subseteq Range(Names(atoms_primary))})
    IN [k \in 1..Len(order) |-> Candidate(order[k])]

\* the loops of get_placements without the test against expected_atoms
PlacementsLoopNoBoardTest(piece, r) ==
    LET side == IF N + 2 * r > 0 THEN N + 2 * r ELSE 0
        Candidate(c) == GridPlacement((c \div (8 * side)) - r, ((c \div 8) % side) - r,
                                      ORIENTATIONS[(c % 8) + 1])
        sorted == {<<c, SortedNames(GetAtoms(piece, Candidate(c)))>> :
                      c \in 0..(side * side * 8 - 1)}
        kept == {p[1] : p \in {q \in sorted : \A o \in sorted : o[2] = q[2] => q[1] <= o[1]}}
        order == SetToSeq(kept)
    IN [k \in 1..Len(order) |-> Candidate(order[k])]

\* the three nested loops of get_placements; candidate c of side * side * 8
\* is square (c div (8 * side) - r, (c div 8) mod side - r), both axes over
\* range(-r, board.N + r), with orientation ORIENTATIONS[c mod 8]. A candidate
\* is appended when its atoms are on the board and placements_history does
\* not hold them yet, i.e. when it is the first on-board candidate with
\* these atoms
PlacementsLoop(piece, r) ==
    LET side == IF N + 2 * r > 0 THEN N + 2 * r ELSE 0
        Candidate(c) == GridPlacement((c \div (8 * side)) - r, ((c \div 8) % side) - r,
                                      ORIENTATIONS[(c % 8) + 1])
        expected_atoms == Range(Names(atoms_primary))
        on_board == {c \in 0..(side * side * 8 - 1) :
                        Range(Names(GetAtoms(piece, Candidate(c)))) \subseteq expected_atoms}
        sorted == {<<c, SortedNames(GetAtoms(piece, Candidate(c)))>> : c \in on_board}
        kept == {p[1] : p \in {q \in sorted : \A o \in sorted : o[2] = q[2] => q[1] <= o[1]}}
        order == SetToSeq(kept)
    IN [k \in 1..Len(order) |-> Candidate(order[k])]

\* GridPiece.get_placements(board): set(board.atoms_primary) and set(atoms)
\* hash the squares
GetPlacements(piece) ==
    LET r == CoordsMax(piece)
    IN IF ~hashable /\ (atoms_primary # <<>> \/ (N + 2 * r > 0 /\ piece.coords # <<>>))
       THEN [err |-> "TypeError", val |-> <<>>]
       ELSE [err |-> "ok", val |-> PlacementsLoop(piece, r)]

\* piece.get_placements() as placing_puzzle.py calls it, without the board:
\* a PlacingPiece misses a positional argument, a PlacingAtom has no such method
GetPlacementsNoArg(piece) ==
    [err |-> IF IsPiece(piece) THEN "TypeError" ELSE "AttributeError", val |-> <<>>]

\* piece.get_atoms() as placing_puzzle.py calls it, without board and placement
GetAtomsNoArg(piece) ==
    [err |-> IF IsPiece(piece) THEN "TypeError" ELSE "AttributeError", val |-> <<>>]

\* GridBoard.__init__: the squares in the order of the comprehension
GridBoardAtoms(n, m) == [k \in 1..(n * m) |-> GridSquare((k - 1) \div m, (k - 1) % m)]

\* ---------------------------------------------------------------- DLX.__init__ and _search as functions
\* the checks of DLX.__init__ without check_disjoint(col_names_primary,
\* col_names_secondary)
DlxCheckNoDisjoint(rn, cp, cs, en) ==
    FirstError(<<CheckDistinct(rn, TRUE),
                 CheckDistinct(cp, TRUE),
                 CheckDistinct(cs, TRUE),
                 IF DOMAIN en \subseteq Range(rn) THEN "ok" ELSE "AssertionError",
                 IF \A r \in DOMAIN en : Range(en[r]) \subseteq Range(cp \o cs)
                 THEN "ok" ELSE "AssertionError",
                 IF Range(rn) \subseteq DOMAIN en THEN "ok" ELSE "KeyError">>)

\* the checks of DLX.__init__ (names are strings, hashable); entries is a dict,
\* so its keys are distinct
DlxCheck(rn, cp, cs, en) ==
    FirstError(<<CheckDistinct(rn, TRUE),
                 CheckDistinct(cp, TRUE),
                 CheckDistinct(cs, TRUE),
                 CheckDisjoint(cp, cs, TRUE),
                 IF DOMAIN en \subseteq Range(rn) THEN "ok" ELSE "AssertionError",
                 IF \A r \in DOMAIN en : Range(en[r]) \subseteq Range(cp \o cs)
                 THEN "ok" ELSE "AssertionError",
                 \* entries[row_name] in _initialize_dlx
                 IF Range(rn) \subseteq DOMAIN en THEN "ok" ELSE "KeyError">>)

RECURSIVE CoverMates(_, _, _)
\* _search, lines 219-222
CoverMates(m, node, right_node) ==
    IF right_node = node THEN m
    ELSE LET m1 == Cover(m, m.column[right_node])
         IN CoverMates(m1, node, m1.R[right_node])

RECURSIVE UncoverMates(_, _, _)
\* _search, lines 228-231
UncoverMates(m, node, left_node) ==
    IF left_node = node THEN m
    ELSE LET m1 == Uncover(m, m.column[left_node])
         IN UncoverMates(m1, node, m1.L[left_node])

RECURSIVE Search(_, _)
RECURSIVE SearchRows(_, _, _, _)
\* _search run to exhaustion from matrix m with partial solution ps: the
\* matrix it leaves and the lists it yields, in order
Search(m, ps) ==
    IF m.R[Root] = Root THEN [m |-> m, out |-> <<ps>>]
    ELSE LET col_node == ChooseColumn(m)
             m1 == Cover(m, col_node)
             r == SearchRows(m1, ps, col_node, m1.D[col_node])
         IN [m |-> Uncover(r.m, col_node), out |-> r.out]

\* the while loop of _search over the rows of the chosen column
SearchRows(m, ps, col_node, node) ==
    IF node = col_node THEN [m |-> m, out |-> <<>>]
    ELSE LET m1 == CoverMates(m, node, m.R[node])
             r == Search(m1, Append(ps, m.row[node]))
             m2 == UncoverMates(r.m, node, r.m.L[node])
             rest == SearchRows(m2, ps, col_node, m2.D[node])
         IN [m |-> rest.m, out |-> r.out \o rest.out]

\* ---------------------------------------------------------------- placing_puzzle.py
AllPieces == pieces_primary \o pieces_secondary \o pieces_tertiary

AllAtoms == atoms_primary \o atoms_secondary

\* PlacingBoard._check_fields
CheckFields ==
    FirstError(<<CheckDistinct(Names(pieces_primary), hashable),
                 CheckDistinct(Names(pieces_secondary), hashable),
                 CheckDistinct(Names(pieces_tertiary), hashable),
                 CheckDistinct(Names(atoms_primary), hashable),
                 CheckDistinct(Names(atoms_secondary), hashable),
                 CheckDisjoint(Names(pieces_primary), Names(pieces_secondary), hashable),
                 CheckDisjoint(Names(pieces_primary), Names(pieces_tertiary), hashable),
                 CheckDisjoint(Names(pieces_secondary), Names(pieces_tertiary), hashable),
                 CheckDisjoint(Names(AllAtoms), Names(AllPieces), hashable),
                 \* atoms.update(piece.get_atoms()) for the first piece
                 IF AllPieces = <<>> THEN "ok" ELSE GetAtomsNoArg(AllPieces[1]).err,
                 \* check_subset({}, atoms): the pieces' atoms were never collected
                 CheckSubset(<<>>, Names(AllAtoms), hashable)>>)

\* the fields solutions() initialises at lines 76-80
EmptySchema ==
    [row_names |-> <<>>, col_names_primary |-> <<>>, col_names_secondary |-> <<>>,
     entries |-> <<>>, rows_dict |-> <<>>, error |-> "ok"]

\* PlacingBoard._add_atom_primary
AddAtomPrimary(st, atom) == [st EXCEPT !.col_names_primary = Append(@, atom.name)]

\* PlacingBoard._add_atom_secondary
AddAtomSecondary(st, atom) == [st EXCEPT !.col_names_secondary = Append(@, atom.name)]

RECURSIVE AddRows(_, _, _, _, _)
\* the loop shared by _add_piece_primary, _add_piece_secondary and
\* _add_piece_tertiary: one row per placement; key tells whether the piece's
\* name is appended to the row's entries
AddRows(st, piece, placements, k, key) ==
    IF k > Len(placements) THEN st
    ELSE LET placement == placements[k]
             row_name == piece.name \o "_" \o placement.name
             cols == Names(GetAtoms(piece, placement))
                     \o (IF key THEN <<piece.name>> ELSE <<>>)
             st1 == [st EXCEPT !.entries = (row_name :> cols) @@ @,
                               !.rows_dict = (row_name :> <<piece, placement>>) @@ @,
                               !.row_names = Append(@, row_name)]
         IN AddRows(st1, piece, placements, k + 1, key)

\* PlacingBoard._add_piece_primary
AddPiecePrimary(st, piece) ==
    LET g == GetPlacementsNoArg(piece)
    IN IF g.err # "ok" THEN [st EXCEPT !.error = g.err]
       ELSE [AddRows(st, piece, g.val, 1, TRUE) EXCEPT
                !.col_names_primary = Append(@, piece.name)]

\* PlacingBoard._add_piece_secondary
AddPieceSecondary(st, piece) ==
    LET g == GetPlacementsNoArg(piece)
    IN IF g.err # "ok" THEN [st EXCEPT !.error = g.err]
       ELSE [AddRows(st, piece, g.val, 1, TRUE) EXCEPT
                !.col_names_secondary = Append(@, piece.name)]

\* PlacingBoard._add_piece_tertiary
AddPieceTertiary(st, piece) ==
    LET g == GetPlacementsNoArg(piece)
    IN IF g.err # "ok" THEN [st EXCEPT !.error = g.err]
       ELSE AddRows(st, piece, g.val, 1, FALSE)

\* the call in the body of one populate loop of solutions()
AddItem(method, st, item) ==
    CASE method = "_add_atom_primary" -> AddAtomPrimary(st, item)
      [] method = "_add_atom_secondary" -> AddAtomSecondary(st, item)
      [] method = "_add_piece_primary" -> AddPiecePrimary(st, item)
      [] method = "_add_piece_secondary" -> AddPieceSecondary(st, item)
      [] method = "_add_piece_tertiary" -> AddPieceTertiary(st, item)

RECURSIVE Each(_, _, _, _)
\* one "for item in items: self.method(item)" loop of solutions(); an
\* exception ends it
Each(method, st, items, k) ==
    IF k > Len(items) \/ st.error # "ok" THEN st
    ELSE Each(method, AddItem(method, st, items[k]), items, k + 1)

\* solutions(), lines 76-92: the five populate loops as the source has them
Populate ==
    LET s1 == Each("_add_atom_primary", EmptySchema, atoms_primary, 1)
        s2 == Each("_add_atom_primary", s1, atoms_secondary, 1)
        s3 == Each("_add_piece_primary", s2, atoms_primary, 1)
        s4 == Each("_add_piece_secondary", s3, pieces_secondary, 1)
    IN Each("_add_piece_tertiary", s4, pieces_tertiary, 1)

\* PlacingBoard._dlx_to_placing_solution: the placed_pieces list
DlxToPlacingSolution(rd, dlx_solution) ==
    [k \in 1..Len(dlx_solution) |-> rd[dlx_solution[k]]]

\* the pieces of a placed_pieces list
PlacedPieceList(placed_pieces) == [k \in 1..Len(placed_pieces) |-> placed_pieces[k][1]]

\* _check_valid without line 253, check_subset(self.board.atoms_primary, atoms)
CheckValidFromSkipPrimaryAtoms(atoms, pieces) ==
    FirstError(<<CheckDistinct(Names(atoms), hashable),
                 CheckSubset(Names(atoms), Names(AllAtoms), hashable),
                 CheckDistinct(Names(pieces), hashable),
                 CheckSubset(Names(pieces), Names(pieces_primary \o pieces_secondary), hashable),
                 CheckSubset(Names(pieces_primary), Names(pieces), hashable)>>)

\* PlacingSolution._check_valid, lines 251-259, on the collected atoms and pieces
CheckValidFrom(atoms, pieces) ==
    FirstError(<<CheckDistinct(Names(atoms), hashable),
                 CheckSubset(Names(atoms), Names(AllAtoms), hashable),
                 CheckSubset(Names(atoms_primary), Names(atoms), hashable),
                 CheckDistinct(Names(pieces), hashable),
                 CheckSubset(Names(pieces), Names(pieces_primary \o pieces_secondary), hashable),
                 CheckSubset(Names(pieces_primary), Names(pieces), hashable)>>)

\* PlacingSolution.__init__ / _check_valid: line 245 calls get_placements()
\* for the first placed piece; line 250 is reached with no placed piece only
CheckValid(placed_pieces) ==
    IF placed_pieces # <<>> THEN GetPlacementsNoArg(placed_pieces[1][1]).err
    ELSE CheckValidFrom(<<>>, PlacedPieceList(placed_pieces))

\* ---------------------------------------------------------------- boards
MaxN == 3

\* the pieces boards are built from
Catalogue ==
    <<GridSmallLPiece("L"), GridTPiece("T"), GridTwoPiece("2")>>

PieceClasses == {"absent", "primary", "secondary", "tertiary"}

\* the catalogue pieces a board puts in one inventory, in catalogue order
PiecesOfClass(cls, c) ==
    LET idx == SetToSeq({k \in 1..Len(Catalogue) : cls[k] = c})
    IN [k \in 1..Len(idx) |-> Catalogue[idx[k]]]

\* a GridBoard subclass, constructed: N x M squares, each catalogue piece in
\* at most one inventory, atoms_secondary [] or one square beside the grid;
\* solutions() has not been called, so the schema fields and dlx are not set
BoardInit ==
    \E h \in BOOLEAN, n \in 0..MaxN, mm \in 0..MaxN, extra \in BOOLEAN,
       cls \in [1..Len(Catalogue) -> PieceClasses] :
        /\ hashable = h
        /\ N = n
        /\ M = mm
        /\ atoms_primary = GridBoardAtoms(n, mm)
        /\ atoms_secondary = IF extra THEN <<GridSquare(n, 0)>> ELSE <<>>
        /\ pieces_primary = PiecesOfClass(cls, "primary")
        /\ pieces_secondary = PiecesOfClass(cls, "secondary")
        /\ pieces_tertiary = PiecesOfClass(cls, "tertiary")
        /\ rows_dict = <<>>
        /\ board_pc = "new"
        /\ board_error = "ok"
        /\ dlx_pending = <<>>
        /\ yielded = <<>>
        /\ solution = NoSolution
        /\ call = NoCall
        /\ outcome = NoOutcome
        /\ NoArray
        /\ row_names = <<>>
        /\ col_names_primary = <<>>
        /\ col_names_secondary = <<>>
        /\ entries = <<>>
        /\ nodes = BlankNodes(1, 0)
        /\ partial_solution = <<>>
        /\ frames = <<>>
        /\ status = "idle"
        /\ emitted = <<>>
        /\ prev_emitted = <<>>
        /\ prev_end = "none"

inventory_vars == <<hashable, N, M, atoms_primary, atoms_secondary, pieces_primary,
                    pieces_secondary, pieces_tertiary>>

generator_vars == <<partial_solution, frames, status, emitted, prev_emitted, prev_end>>

\* solutions(), lines 101-103: take the next list of self.dlx.solutions(), or
\* finish; the Solution is constructed, and so checked, before it is yielded
YieldNext(rd, pending) ==
    IF pending = <<>>
    THEN /\ board_pc' = "done"
         /\ board_error' = "ok"
         /\ dlx_pending' = <<>>
         /\ yielded' = yielded
    ELSE LET placed_pieces == DlxToPlacingSolution(rd, Head(pending))
             e == CheckValid(placed_pieces)
         IN /\ dlx_pending' = Tail(pending)
            /\ board_error' = e
            /\ board_pc' = IF e = "ok" THEN "suspended" ELSE "error"
            /\ yielded' = IF e = "ok" THEN Append(yielded, placed_pieces) ELSE yielded

\* the first next() on PlacingBoard.solutions(): _check_fields, the populate
\* loops, DLX(...), and the enumeration up to the first yield
BoardStart ==
    /\ board_pc = "new"
    /\ LET e1 == CheckFields
           st == IF e1 = "ok" THEN Populate ELSE [EmptySchema EXCEPT !.error = e1]
           e2 == IF st.error = "ok"
                 THEN DlxCheck(st.row_names, st.col_names_primary,
                               st.col_names_secondary, st.entries)
                 ELSE st.error
           m == IF e2 = "ok"
                THEN InitializeDlx(st.row_names, st.col_names_primary,
                                   st.col_names_secondary, st.entries)
                ELSE nodes
       IN /\ row_names' = st.row_names
          /\ col_names_primary' = st.col_names_primary
          /\ col_names_secondary' = st.col_names_secondary
          /\ entries' = st.entries
          /\ rows_dict' = st.rows_dict
          /\ nodes' = m
          /\ IF e2 = "ok"
             THEN YieldNext(st.rows_dict, Search(m, <<>>).out)
             ELSE /\ board_pc' = "error"
                  /\ board_error' = e2
                  /\ UNCHANGED <<dlx_pending, yielded>>
    /\ UNCHANGED <<inventory_vars, generator_vars, solution, api_vars>>

\* a later next() on the suspended generator
BoardResume ==
    /\ board_pc = "suspended"
    /\ YieldNext(rows_dict, dlx_pending)
    /\ UNCHANGED <<schema_vars, rows_dict, nodes, inventory_vars, generator_vars, solution,
                   api_vars>>

\* placed_pieces lists a caller may hand to the Solution class: none, one
\* piece of the board, the same piece at two placements
PlacedChoices ==
    {<<>>}
    \cup {<< <<p, GridPlacement(0, 0, "U")>> >> : p \in Range(AllPieces)}
    \cup {<< <<p, GridPlacement(0, 0, "U")>>, <<p, GridPlacement(0, 1, "U")>> >> :
              p \in Range(AllPieces)}

\* PlacingSolution(board, placed_pieces) constructed directly
ConstructSolution ==
    /\ board_pc # "none"
    /\ solution = NoSolution
    /\ \E placed_pieces \in PlacedChoices :
          solution' = [placed_pieces |-> placed_pieces, result |-> CheckValid(placed_pieces)]
    /\ UNCHANGED <<schema_vars, rows_dict, nodes, inventory_vars, generator_vars,
                   board_pc, board_error, dlx_pending, yielded, api_vars>>

NextBoard ==
    \/ BoardStart
    \/ BoardResume
    \/ ConstructSolution

SpecBoard == BoardInit /\ [][NextBoard]_vars

\* ---------------------------------------------------------------- get_placements called on its own
MaxM == 4

\* the pieces get_placements is called on: four of the piece classes, and a
\* GridPiece whose cells all lie at negative offsets
EnumPieces ==
    <<GridSmallLPiece("L"), GridTPiece("T"), GridTwoPiece("2"), GridThreePiece("3"),
      GridPiece("far", << <<-1, 0>>, <<-2, 0>> >>)>>

\* no DLX has been constructed
NoDlx ==
    /\ row_names = <<>>
    /\ col_names_primary = <<>>
    /\ col_names_secondary = <<>>
    /\ entries = <<>>
    /\ nodes = BlankNodes(1, 0)
    /\ partial_solution = <<>>
    /\ frames = <<>>
    /\ status = "idle"
    /\ emitted = <<>>
    /\ prev_emitted = <<>>
    /\ prev_end = "none"

\* a GridBoard of N x M squares; the enumerator reads N and atoms_primary only
PlacementsInit ==
    \E h \in BOOLEAN, n \in 0..MaxN, mm \in 0..MaxM :
        /\ hashable = h
        /\ N = n
        /\ M = mm
        /\ atoms_primary = GridBoardAtoms(n, mm)
        /\ atoms_secondary = <<>>
        /\ pieces_primary = <<>>
        /\ pieces_secondary = <<>>
        /\ pieces_tertiary = <<>>
        /\ rows_dict = <<>>
        /\ board_pc = "new"
        /\ board_error = "ok"
        /\ dlx_pending = <<>>
        /\ yielded = <<>>
        /\ solution = NoSolution
        /\ call = NoCall
        /\ outcome = NoOutcome
        /\ NoArray
        /\ NoDlx

\* piece.get_placements(board)
GetPlacementsCall ==
    /\ call = NoCall
    /\ \E k \in 1..Len(EnumPieces) :
          /\ call' = [method |-> "get_placements", piece |-> EnumPieces[k]]
          /\ outcome' = GetPlacements(EnumPieces[k])
    /\ UNCHANGED <<dlx_vars, board_vars, array_vars>>

NextPlacements == GetPlacementsCall

SpecPlacements == PlacementsInit /\ [][NextPlacements]_vars

\* ---------------------------------------------------------------- entries that name a column more than once
\* check_distinct(entries) at line 107 iterates the keys of the dict, which
\* are distinct by construction, and check_subset at lines 113-119 looks at
\* the set of the listed column names: a list that names a column twice, or
\* out of column order, passes every check of __init__
MaxEntries == 2

\* the lists of at most MaxEntries column names over nc columns
RepeatedRowLists(nc) == UNION {[1..n -> 1..nc] : n \in 0..MaxEntries}

InitRepeated ==
    \E nr \in 0..MaxRows, np \in 0..MaxCols :
      \E ns \in 0..(MaxCols - np), en \in [1..nr -> RepeatedRowLists(MaxCols)] :
        /\ \A r \in 1..nr : Range(en[r]) \subseteq 1..(np + ns)
        /\ row_names = [i \in 1..nr |-> i]
        /\ col_names_primary = [i \in 1..np |-> i]
        /\ col_names_secondary = [i \in 1..ns |-> np + i]
        /\ entries = en
        /\ nodes = InitializeDlx([i \in 1..nr |-> i], [i \in 1..np |-> i],
                                 [i \in 1..ns |-> np + i], en)
        /\ partial_solution = <<>>
        /\ frames = <<>>
        /\ status = "idle"
        /\ emitted = <<>>
        /\ prev_emitted = <<>>
        /\ prev_end = "none"
        /\ NoBoard
        /\ call = NoCall
        /\ outcome = NoOutcome
        /\ NoArray

\* the depth of the call stack at which Python gives up: sys.getrecursionlimit()
\* is 1000 by default; the model scales it down to two levels more than any
\* search over MaxCols columns of a 0/1 matrix needs
RecursionLimit == MaxCols + 2

\* _search, line 225: the recursive call, while the stack has room
RecurseWithinLimit == Len(frames) < RecursionLimit /\ Recurse

\* _search, line 225: the recursive call when the stack is full raises
\* RecursionError, which leaves every frame of the generator at once; no
\* uncover runs and the buffer keeps its rows
RecursionError ==
    /\ status = "running"
    /\ Top.pc = "cover_row"
    /\ Top.ptr = Top.node
    /\ Len(frames) = RecursionLimit
    /\ frames' = <<>>
    /\ status' = "raised"
    /\ UNCHANGED <<schema_vars, nodes, partial_solution, emitted, prev_emitted, prev_end, board_vars, api_vars>>

\* DLX.solutions() called for the first or the second time on the instance:
\* the sizes drift further with every enumeration of such a schema, so the
\* number of enumerations is capped
SolutionsTwice == prev_end = "none" /\ Solutions

NextRepeated ==
    \/ SolutionsTwice
    \/ Yield
    \/ ChooseAndCover
    \/ Pull
    \/ BranchRow
    \/ CoverRowMate
    \/ RecurseWithinLimit
    \/ RecursionError
    \/ UncoverRowMate
    \/ NextRow
    \/ UncoverChosen

SpecRepeated == InitRepeated /\ [][NextRepeated]_vars

\* ---------------------------------------------------------------- get_atoms called on its own
\* piece.get_atoms(board, GridPlacement(i, j, orientation)) for a piece and a
\* placement of the caller's choice, on or off the board
GetAtomsCall ==
    /\ call = NoCall
    /\ \E k \in 1..Len(EnumPieces), i \in -1..N, j \in -1..N, o \in 1..Len(ORIENTATIONS) :
          LET placement == GridPlacement(i, j, ORIENTATIONS[o])
          IN /\ call' = [method |-> "get_atoms", piece |-> EnumPieces[k],
                         placement |-> placement]
             /\ outcome' = [err |-> "ok", val |-> GetAtoms(EnumPieces[k], placement)]
    /\ UNCHANGED <<dlx_vars, board_vars, array_vars>>

NextAtoms == GetAtomsCall

SpecAtoms == PlacementsInit /\ [][NextAtoms]_vars

\* ---------------------------------------------------------------- DLX(...) called with any arguments
MaxNames == 2

\* counts[obj] of pd.Series(list(objs)).value_counts()
ValueCount(names, x) == Cardinality({k \in 1..Len(names) : names[k] = x})

\* the objects check_distinct can name: counts.index[0] after sorting the
\* counts in descending order is an object of the largest count, whichever
\* of them the sort puts first; the assertion fails when that count is not 1
DistinctOffenders(names) ==
    {x \in Range(names) :
        /\ ValueCount(names, x) # 1
        /\ \A y \in Range(names) : ValueCount(names, y) <= ValueCount(names, x)}

\* the column names listed in the values of entries
EntryCols(en) == UNION {Range(en[r]) : r \in DOMAIN en}

\* the objects the message of the first failing check of DLX.__init__ can
\* name: next(iter(...)) of a set is any of its elements
DlxCheckOffenders(rn, cp, cs, en) ==
    LET checks == <<DistinctOffenders(rn),
                    DistinctOffenders(cp),
                    DistinctOffenders(cs),
                    Range(cp) \cap Range(cs),
                    DOMAIN en \ Range(rn),
                    EntryCols(en) \ Range(cp \o cs)>>
    IN IF \E k \in 1..Len(checks) : checks[k] # {}
       THEN checks[CHOOSE k \in 1..Len(checks) :
                       /\ checks[k] # {}
                       /\ \A l \in 1..(k - 1) : checks[l] = {}]
       ELSE {}

\* the key of the KeyError of entries[row_name]: the first row name that is
\* not a key of entries
MissingKey(rn, en) ==
    {rn[k] : k \in {k \in 1..Len(rn) :
                       /\ rn[k] \notin DOMAIN en
                       /\ \A l \in 1..(k - 1) : rn[l] \in DOMAIN en}}

\* the names used in the arguments
RowAlphabet == {"row", "row1"}
ColAlphabet == {"col1", "col2"}
EntryValues == {<<>>, <<"col1">>, <<"col2">>, <<"col3">>, <<"col1", "col1">>}

\* lists of at most MaxNames names
NameLists(alphabet) == UNION {[1..n -> alphabet] : n \in 0..MaxNames}

\* dicts from some of the row names to lists of column names
EntryDicts == UNION {[K -> EntryValues] : K \in SUBSET RowAlphabet}

ConstructInit ==
    /\ NoDlx
    /\ NoBoard
    /\ call = NoCall
    /\ outcome = NoOutcome
    /\ NoArray

\* entries with an empty list for every row name that is not a key
WithEmptyRows(rn, en) ==
    [r \in DOMAIN en \cup Range(rn) |-> IF r \in DOMAIN en THEN en[r] ELSE <<>>]

\* a constructor that reads entries.get(row_name, []) in _initialize_dlx
ConstructEmptyRows ==
    /\ call = NoCall
    /\ \E rn \in NameLists(RowAlphabet), cp \in NameLists(ColAlphabet),
          cs \in NameLists(ColAlphabet), en \in EntryDicts :
          LET err == DlxCheck(rn, cp, cs, WithEmptyRows(rn, en))
          IN /\ call' = [method |-> "DLX", row_names |-> rn, col_names_primary |-> cp,
                         col_names_secondary |-> cs, entries |-> en]
             /\ IF err = "ok"
                THEN /\ outcome' = [err |-> "ok"]
                     /\ row_names' = rn
                     /\ col_names_primary' = cp
                     /\ col_names_secondary' = cs
                     /\ entries' = en
                     /\ nodes' = InitializeDlx(rn, cp, cs, WithEmptyRows(rn, en))
                ELSE /\ \E v \in DlxCheckOffenders(rn, cp, cs, en) :
                            outcome' = [err |-> err, val |-> v]
                     /\ UNCHANGED <<schema_vars, nodes>>
    /\ UNCHANGED <<partial_solution, frames, status, emitted, prev_emitted, prev_end,
                   board_vars, array_vars>>

\* DLX(row_names, col_names_primary, col_names_secondary, entries): the
\* fields are assigned after the checks; an exception leaves no instance
Construct ==
    /\ call = NoCall
    /\ \E rn \in NameLists(RowAlphabet), cp \in NameLists(ColAlphabet),
          cs \in NameLists(ColAlphabet), en \in EntryDicts :
          LET err == DlxCheck(rn, cp, cs, en)
          IN /\ call' = [method |-> "DLX", row_names |-> rn, col_names_primary |-> cp,
                         col_names_secondary |-> cs, entries |-> en]
             /\ IF err = "ok"
                THEN /\ outcome' = [err |-> "ok"]
                     /\ row_names' = rn
                     /\ col_names_primary' = cp
                     /\ col_names_secondary' = cs
                     /\ entries' = en
                     /\ nodes' = InitializeDlx(rn, cp, cs, en)
                ELSE /\ \E v \in (IF err = "KeyError" THEN MissingKey(rn, en)
                                   ELSE DlxCheckOffenders(rn, cp, cs, en)) :
                            outcome' = [err |-> err, val |-> v]
                     /\ UNCHANGED <<schema_vars, nodes>>
    /\ UNCHANGED <<partial_solution, frames, status, emitted, prev_emitted, prev_end,
                   board_vars, array_vars>>

NextConstruct == Construct

SpecConstruct == ConstructInit /\ [][NextConstruct]_vars

\* ---------------------------------------------------------------- ArrayDLX(...)
MaxDim == 2

\* the 2-D arrays of shape (n, m) holding 0 and 1
Arrays(n, m) == {[shape |-> <<n, m>>, data |-> d] : d \in [1..n -> [1..m -> {0, 1}]]}

\* arr.astype("bool")
AsBool(arr) ==
    [shape |-> arr.shape,
     data |-> [i \in 1..arr.shape[1] |-> [j \in 1..arr.shape[2] |-> arr.data[i][j] # 0]]]

\* np.zeros(shape=(n, m), dtype=bool)
Zeros(n, m) == [shape |-> <<n, m>>, data |-> [i \in 1..n |-> [j \in 1..m |-> FALSE]]]

\* [str(x + offset) for x in range(count)]
DefaultNames(offset, count) == [x \in 1..count |-> IntStr(x - 1 + offset)]

\* np.where(row)[0] with the column indexes that hold no entry instead
WhereZero(row) == SetToSeq({j \in 1..Len(row) : ~row[j]})

\* np.where(row)[0]: the column indexes of the entries of the row, increasing
Where(row) == SetToSeq({j \in 1..Len(row) : row[j]})

\* list(col_names_combined_array[col_idxs])
Take(names, col_idxs) == [k \in 1..Len(col_idxs) |-> names[col_idxs[k]]]

\* ArrayDLX.__init__ up to the call of DLX.__init__: defaults, dimension
\* checks, fields, and the entries dict (a later row of the same name
\* overwrites an earlier one)
ArrayDlxFields(a, rn, cn, a_sec, cns) ==
    LET n == a.shape[1]
        m == a.shape[2]
        rn1 == IF rn = None THEN DefaultNames(0, n) ELSE rn[1]
        cn1 == IF cn = None THEN DefaultNames(0, m) ELSE cn[1]
        a_sec1 == IF a_sec = None THEN Zeros(n, 0) ELSE AsBool(a_sec[1])
        n_secondary == a_sec1.shape[1]
        m_secondary == a_sec1.shape[2]
        cns1 == IF cns = None THEN DefaultNames(m, m_secondary) ELSE cns[1]
        dims == /\ Len(rn1) = n
                /\ Len(cn1) = m
                /\ n = n_secondary
                /\ Len(cns1) = m_secondary
        A_combined == [i \in 1..n |-> AsBool(a).data[i] \o a_sec1.data[i]]
        col_names_combined == cn1 \o cns1
        en == [r \in Range(rn1) |->
                  LET k == CHOOSE k \in 1..n :
                               rn1[k] = r /\ \A l \in (k + 1)..n : rn1[l] # r
                  IN Take(col_names_combined, Where(A_combined[k]))]
    IN [err |-> IF dims THEN "ok" ELSE "AssertionError",
        A |-> AsBool(a),
        row_names |-> rn1,
        col_names |-> cn1,
        A_secondary |-> a_sec1,
        col_names_secondary |-> cns1,
        entries |-> IF dims THEN en ELSE <<>>]

\* the arguments tried: names left out, names of the right length, names of
\* the wrong length, a secondary name that is also a primary one; no
\* secondary block, one of no or one column, one with a row too many
RowNameArgs(n) == {None, Some([k \in 1..n |-> "row" \o IntStr(k)]), Some(<<"row1">>)}
ColNameArgs(m) == {None, Some([k \in 1..m |-> "col" \o IntStr(k)])}
SecondaryArgs(n) ==
    {None} \cup {Some(x) : x \in Arrays(n, 0) \cup Arrays(n, 1) \cup Arrays(n + 1, 0)}
SecondaryNameArgs(m) == {None, Some(<<>>), Some(<<"col" \o IntStr(m + 1)>>), Some(<<"col1">>)}

ArrayInit ==
    /\ NoDlx
    /\ NoBoard
    /\ call = NoCall
    /\ outcome = NoOutcome
    /\ NoArray

\* ArrayDLX(A, row_names, col_names, A_secondary, col_names_secondary)
ConstructArray ==
    /\ call = NoCall
    /\ \E n \in 0..MaxDim, m \in 0..MaxDim :
          \E a \in Arrays(n, m), rn \in RowNameArgs(n), cn \in ColNameArgs(m),
             a_sec \in SecondaryArgs(n), cns \in SecondaryNameArgs(m) :
             LET f == ArrayDlxFields(a, rn, cn, a_sec, cns)
                 err == IF f.err = "ok"
                        THEN DlxCheck(f.row_names, f.col_names, f.col_names_secondary,
                                      f.entries)
                        ELSE f.err
             IN /\ call' = [method |-> "ArrayDLX", A |-> a, row_names |-> rn,
                            col_names |-> cn, A_secondary |-> a_sec,
                            col_names_secondary |-> cns]
                /\ outcome' = [err |-> err]
                /\ IF err = "ok"
                   THEN /\ A' = Some(f.A)
                        /\ col_names' = Some(f.col_names)
                        /\ A_secondary' = Some(f.A_secondary)
                        /\ row_names' = f.row_names
                        /\ col_names_primary' = f.col_names
                        /\ col_names_secondary' = f.col_names_secondary
                        /\ entries' = f.entries
                        /\ nodes' = InitializeDlx(f.row_names, f.col_names,
                                                  f.col_names_secondary, f.entries)
                   ELSE UNCHANGED <<array_vars, schema_vars, nodes>>
    /\ UNCHANGED <<partial_solution, frames, status, emitted, prev_emitted, prev_end,
                   board_vars>>

NextArray == ConstructArray

SpecArray == ArrayInit /\ [][NextArray]_vars

\* ---------------------------------------------------------------- DLX claims
Pristine == InitializeDlx(row_names, col_names_primary, col_names_secondary, entries)

RowCols(r) == Range(entries[r])

HasPrimaryEntry(r) == RowCols(r) \cap Range(col_names_primary) # {}

\* the number of entries the rows of the list sol have in column c
Hits(sol, c) == Cardinality({k \in 1..Len(sol) : c \in RowCols(sol[k])})

SoundList(sol) ==
    /\ \A c \in Range(col_names_primary) : Hits(sol, c) = 1
    /\ \A c \in Range(col_names_secondary) : Hits(sol, c) <= 1

\* the number of rows of the set S with an entry in column c
SetHits(S, c) == Cardinality({r \in S : c \in RowCols(r)})

ExactCover(S) ==
    /\ \A c \in Range(col_names_primary) : SetHits(S, c) = 1
    /\ \A c \in Range(col_names_secondary) : SetHits(S, c) <= 1

\* how many of the emitted lists hold exactly the rows of S
TimesEmitted(S) == Cardinality({i \in 1..Len(emitted) : Range(emitted[i]) = S})

\* C1: every list of row names emitted by solutions() is sound: over its rows
\* every primary column has exactly one entry and every secondary column at
\* most one.
C1_Soundness == \A i \in 1..Len(emitted) : SoundList(emitted[i])

\* a two-row solution has been emitted for a schema with a secondary column
C1_Witness ==
    /\ status = "suspended"
    /\ col_names_secondary # <<>>
    /\ Len(emitted[Len(emitted)]) = 2
    /\ \E r \in Range(row_names) : RowCols(r) \cap Range(col_names_secondary) # {}

C3_Restartable ==
    status = "exhausted" =>
        /\ nodes = Pristine
        /\ prev_end = "exhausted" => emitted = prev_emitted

\* a second enumeration has run to exhaustion and emitted two solutions
C3_Witness ==
    /\ status = "exhausted"
    /\ prev_end = "exhausted"
    /\ Len(emitted) = 2

\* C4: a row without entry in any primary column (an empty row, or a row with
\* secondary entries only) appears in no emitted solution.
C4_PrimaryRowsOnly ==
    \A i \in 1..Len(emitted) : \A k \in 1..Len(emitted[i]) : HasPrimaryEntry(emitted[i][k])

\* a solution has been emitted for a schema with a secondary-only row that
\* could be added to it without hitting any column twice
C4_Witness ==
    /\ status = "suspended"
    /\ Len(emitted[Len(emitted)]) >= 1
    /\ \E r \in Range(row_names) :
          /\ RowCols(r) # {}
          /\ ~HasPrimaryEntry(r)
          /\ ExactCover(Range(emitted[Len(emitted)]) \cup {r})

\* ---------------------------------------------------------------- board claims
Count(seq, x) == Cardinality({k \in 1..Len(seq) : seq[k] = x})

\* how many times the pieces of placed_pieces cover the atom named a
CoverCount(placed_pieces, a) ==
    Cardinality({kl \in (1..Len(placed_pieces)) \X (1..4) :
                    LET atoms == GetAtoms(placed_pieces[kl[1]][1], placed_pieces[kl[1]][2])
                    IN kl[2] <= Len(atoms) /\ atoms[kl[2]].name = a})

\* the structural conditions on a solution of the board
StructuralCheck(placed_pieces) ==
    /\ \A p \in Range(Names(pieces_primary)) :
          Count(Names(PlacedPieceList(placed_pieces)), p) = 1
    /\ \A p \in Range(Names(pieces_secondary)) :
          Count(Names(PlacedPieceList(placed_pieces)), p) <= 1
    /\ \A a \in Range(Names(atoms_primary)) : CoverCount(placed_pieces, a) = 1
    /\ \A a \in Range(Names(atoms_secondary)) : CoverCount(placed_pieces, a) <= 1

\* solutions() has been started and is not suspended at a yield
Ended == board_pc \in {"done", "error"}

\* the placements the enumerator lists for a piece on this board
ExpectedPlacements(piece) == PlacementsLoop(piece, CoordsMax(piece))

\* Demo1GridBoard of tests/test_demo_puzzle.py: 3x3, small-L, T and domino, all primary
IsDemo1 ==
    /\ N = 3 /\ M = 3
    /\ Names(pieces_primary) = <<"piece-L", "piece-T", "piece-2">>
    /\ pieces_secondary = <<>> /\ pieces_tertiary = <<>> /\ atoms_secondary = <<>>

\* Demo5GridBoard of tests/test_demo_puzzle.py: 3x2, one tertiary domino
IsDemo5 ==
    /\ N = 3 /\ M = 2
    /\ pieces_primary = <<>> /\ pieces_secondary = <<>>
    /\ Names(pieces_tertiary) = <<"piece-2">> /\ atoms_secondary = <<>>

OnlyTertiaryPlaced(placed_pieces) ==
    /\ placed_pieces # <<>>
    /\ Range(Names(PlacedPieceList(placed_pieces))) \subseteq Range(Names(pieces_tertiary))
    /\ \A k \in 1..Len(placed_pieces) :
          Range(Names(GetAtoms(placed_pieces[k][1], placed_pieces[k][2])))
              \subseteq Range(Names(atoms_primary))
    /\ \A k, l \in 1..Len(placed_pieces) :
          k # l => placed_pieces[k][2].name # placed_pieces[l][2].name

\* C6: a Solution that places tertiary pieces only, any number of times, and
\* meets the structural conditions is accepted by the structural check; and
\* solutions() on the 3x2 board whose only piece is one tertiary domino ends
\* normally after exactly 3 solutions.
C6_Tertiary ==
    /\ (/\ solution.result # "none"
        /\ OnlyTertiaryPlaced(solution.placed_pieces)
        /\ StructuralCheck(solution.placed_pieces)) => solution.result = "ok"
    /\ (IsDemo5 /\ Ended) => (board_pc = "done" /\ Len(yielded) = 3)

\* the (piece, placement) list of one choice f of a placement index per primary piece
ChoiceList(f) ==
    [k \in 1..Len(pieces_primary) |->
        <<pieces_primary[k], ExpectedPlacements(pieces_primary[k])[f[k]]>>]

\* the ways of choosing one enumerated placement per primary piece that cover
\* every primary atom exactly once
ValidChoices ==
    LET lens == {<<k, Len(ExpectedPlacements(pieces_primary[k]))>> :
                    k \in 1..Len(pieces_primary)}
        LenOf(k) == (CHOOSE p \in lens : p[1] = k)[2]
        most == IF lens = {} THEN 0
                ELSE CHOOSE n \in {p[2] : p \in lens} : \A p \in lens : p[2] <= n
    IN {f \in [1..Len(pieces_primary) -> 1..most] :
           /\ \A k \in 1..Len(pieces_primary) : f[k] <= LenOf(k)
           /\ \A a \in Range(Names(atoms_primary)) : CoverCount(ChoiceList(f), a) = 1}

\* C7: on a board whose pieces are all primary, solutions() ends normally
\* having yielded exactly one Solution per valid choice of placements and
\* nothing else; on the 3x3 board with small-L, T and domino that is 8.
C7_AllPrimary ==
    /\ (pieces_primary # <<>> /\ pieces_secondary = <<>> /\ pieces_tertiary = <<>> /\ Ended) =>
          /\ board_pc = "done"
          /\ Len(yielded) = Cardinality(ValidChoices)
          /\ \A f \in ValidChoices :
                \E k \in 1..Len(yielded) : Range(yielded[k]) = Range(ChoiceList(f))
    /\ (IsDemo1 /\ Ended) => (board_pc = "done" /\ Len(yielded) = 8)

\* C8: once solutions() has run its populate loops, each primary piece's name
\* is a primary column exactly once (and no secondary column), each
\* secondary piece's name is a secondary column exactly once (and no primary
\* column), and no tertiary piece's name is a column.
C8_KeyColumns ==
    board_pc \in {"suspended", "done", "error"} =>
        /\ \A p \in Range(Names(pieces_primary)) :
              Count(col_names_primary, p) = 1 /\ Count(col_names_secondary, p) = 0
        /\ \A p \in Range(Names(pieces_secondary)) :
              Count(col_names_secondary, p) = 1 /\ Count(col_names_primary, p) = 0
        /\ \A p \in Range(Names(pieces_tertiary)) :
              Count(col_names_primary \o col_names_secondary, p) = 0

\* C9: once solutions() has compiled the schema and built the DLX, every
\* primary atom is a primary column and every secondary atom is a secondary
\* column and no primary one; so a board with secondary atoms only and no
\* piece has exactly one solution, the empty one.
C9_AtomColumns ==
    board_pc \in {"suspended", "done"} =>
        /\ \A a \in Range(Names(atoms_primary)) : a \in Range(col_names_primary)
        /\ \A a \in Range(Names(atoms_secondary)) :
              a \in Range(col_names_secondary) /\ a \notin Range(col_names_primary)
        /\ (AllPieces = <<>> /\ atoms_primary = <<>> /\ board_pc = "done") =>
              Len(yielded) = 1

\* C10: once solutions() has run its populate loops, every piece and every
\* placement enumerated for it has exactly one row "{piece.name}_{placement.name}",
\* whose entries are the covered atoms' names, plus the piece's name unless
\* the piece is tertiary, and rows_dict maps the row name to the pair.
C10_Rows ==
    board_pc \in {"suspended", "done", "error"} =>
        \A piece \in Range(AllPieces) :
            LET g == GetPlacements(piece)
                key == IF piece.name \in Range(Names(pieces_tertiary))
                       THEN <<>> ELSE <<piece.name>>
            IN g.err = "ok" =>
                  \A k \in 1..Len(g.val) :
                      LET row_name == piece.name \o "_" \o g.val[k].name
                      IN /\ Count(row_names, row_name) = 1
                         /\ row_name \in DOMAIN entries
                         /\ entries[row_name] = Names(GetAtoms(piece, g.val[k])) \o key
                         /\ row_name \in DOMAIN rows_dict
                         /\ rows_dict[row_name] = <<piece, g.val[k]>>

\* ---------------------------------------------------------------- enumerator claims
\* the names of the atoms a placement of a piece occupies
AtomSet(piece, placement) == Range(Names(GetAtoms(piece, placement)))

\* get_placements was called and returned a list
Returned == call.method = "get_placements" /\ outcome.err = "ok"

\* the largest absolute value of a coordinate of the piece
MaxAbs(piece) ==
    LET vals == {piece.coords[k][1] : k \in 1..Len(piece.coords)}
                \cup {piece.coords[k][2] : k \in 1..Len(piece.coords)}
                \cup {-piece.coords[k][1] : k \in 1..Len(piece.coords)}
                \cup {-piece.coords[k][2] : k \in 1..Len(piece.coords)}
    IN CHOOSE v \in vals : \A w \in vals : w <= v

\* C11: get_placements returns, and for every orientation and every
\* translation (i, j) that puts all cells of the piece on primary atoms of
\* the N x M board, some returned placement occupies the same atoms.
C11_PlacementsComplete ==
    call.method = "get_placements" =>
        /\ outcome.err = "ok"
        /\ LET a == MaxAbs(call.piece)
           IN \A i \in (-a)..(N - 1 + a), j \in (-a)..(M - 1 + a), k \in 1..Len(ORIENTATIONS) :
                 LET atoms == AtomSet(call.piece, GridPlacement(i, j, ORIENTATIONS[k]))
                 IN atoms \subseteq Range(Names(atoms_primary)) =>
                       \E l \in 1..Len(outcome.val) :
                           AtomSet(call.piece, outcome.val[l]) = atoms

HasDuplicate(names) == \E k, l \in 1..Len(names) : k # l /\ names[k] = names[l]

\* the elements of the arguments that break a rule of the schema
Offending(c) ==
    {x \in Range(c.row_names) : ValueCount(c.row_names, x) > 1}
    \cup {x \in Range(c.col_names_primary) : ValueCount(c.col_names_primary, x) > 1}
    \cup {x \in Range(c.col_names_secondary) : ValueCount(c.col_names_secondary, x) > 1}
    \cup (Range(c.col_names_primary) \cap Range(c.col_names_secondary))
    \cup (DOMAIN c.entries \ Range(c.row_names))
    \cup (EntryCols(c.entries) \ (Range(c.col_names_primary) \cup Range(c.col_names_secondary)))

\* C14: when the row names, the primary column names or the secondary column
\* names hold a duplicate, a name is both primary and secondary, entries has
\* a key that is no row name, or entries lists a column that is neither
\* primary nor secondary, DLX(...) raises an error naming one offending
\* element and no instance exists.
C14_ConstructionRejects ==
    (/\ call.method = "DLX"
     /\ \/ HasDuplicate(call.row_names)
        \/ HasDuplicate(call.col_names_primary)
        \/ HasDuplicate(call.col_names_secondary)
        \/ Range(call.col_names_primary) \cap Range(call.col_names_secondary) # {}
        \/ ~(DOMAIN call.entries \subseteq Range(call.row_names))
        \/ ~(EntryCols(call.entries)
                \subseteq Range(call.col_names_primary) \cup Range(call.col_names_secondary)))
    => /\ outcome.err = "AssertionError"
       /\ outcome.val \in Offending(call)
       /\ NoDlx

\* entries of the one row lists a column that does not exist, and the error
\* names it
C14_Witness ==
    /\ call.method = "DLX"
    /\ call.row_names = <<"row">>
    /\ call.col_names_primary = <<"col1">>
    /\ call.col_names_secondary = <<"col2">>
    /\ DOMAIN call.entries = {"row"}
    /\ call.entries["row"] = <<"col3">>
    /\ outcome = [err |-> "AssertionError", val |-> "col3"]

\* ---------------------------------------------------------------- validation claims
\* the names of the atoms a piece occupies at some placement the enumerator lists
PieceAtoms(piece) ==
    LET placements == ExpectedPlacements(piece)
    IN UNION {AtomSet(piece, placements[k]) : k \in 1..Len(placements)}

\* the defects _check_fields is there to reject
BoardDefect ==
    \/ HasDuplicate(Names(pieces_primary))
    \/ HasDuplicate(Names(pieces_secondary))
    \/ HasDuplicate(Names(pieces_tertiary))
    \/ HasDuplicate(Names(atoms_primary))
    \/ HasDuplicate(Names(atoms_secondary))
    \/ Range(Names(pieces_primary)) \cap Range(Names(pieces_secondary)) # {}
    \/ Range(Names(pieces_primary)) \cap Range(Names(pieces_tertiary)) # {}
    \/ Range(Names(pieces_secondary)) \cap Range(Names(pieces_tertiary)) # {}
    \/ Range(Names(AllAtoms)) \cap Range(Names(AllPieces)) # {}
    \/ \E k \in 1..Len(AllPieces) :
          ~(PieceAtoms(AllPieces[k]) \subseteq Range(Names(AllAtoms)))

\* C15: once solutions() has been started, a board without a defect has
\* passed _check_fields, and a board with a duplicate in an inventory, a
\* piece in two classes, a piece that is also an atom, or a piece on an atom
\* outside the board has failed before yielding anything.
C15_Validation ==
    board_pc \notin {"none", "new"} =>
        IF CheckFields = "ok"
        THEN ~BoardDefect
        ELSE BoardDefect /\ board_pc = "error" /\ yielded = <<>>

\* ---------------------------------------------------------------- matrix state claims
\* the sequence solutions() yields on a freshly constructed instance of the schema
FreshSequence == Search(Pristine, <<>>).out

\* C16: a solutions() call made after an earlier sequence of the same
\* instance was abandoned at a yield enumerates, when run to exhaustion, the
\* sequence a freshly constructed instance enumerates.
C16_RestartAfterAbandon ==
    (status = "exhausted" /\ prev_end = "abandoned") => emitted = FreshSequence

ColNodes == 1..(Len(col_names_primary) + Len(col_names_secondary))

RECURSIVE ColumnList(_, _, _)
\* the nodes reached from the header col_node by following D
ColumnList(m, col_node, node) ==
    IF node = col_node THEN {} ELSE {node} \cup ColumnList(m, col_node, m.D[node])

RECURSIVE RowMates(_, _, _)
\* the other nodes of the row of node, reached by following R
RowMates(m, node, right_node) ==
    IF right_node = node THEN {} ELSE {right_node} \cup RowMates(m, node, m.R[right_node])

\* the column is not covered: a primary header is in the header list, and
\* the rows in the column's list are linked in all their other columns
Uncovered(m, col_node) ==
    /\ col_node <= Len(col_names_primary) =>
          m.R[m.L[col_node]] = col_node /\ m.L[m.R[col_node]] = col_node
    /\ \A node \in ColumnList(m, col_node, m.D[col_node]) :
          \A x \in RowMates(m, node, m.R[node]) :
              m.D[m.U[x]] = x /\ m.U[m.D[x]] = x

\* C20 as stated: in every matrix state, cover(c) followed by uncover(c)
\* gives back the same matrix, for every column c.
C20_CoverUncoverAnyState ==
    \A c \in ColNodes : Uncover(Cover(nodes, c), c) = nodes

\* C20: in every matrix state the search reaches, cover(c) followed by
\* uncover(c) gives back the same matrix (links, header list and sizes) for
\* every column c that is not covered in that state.
C20_CoverUncover ==
    \A c \in ColNodes : Uncovered(nodes, c) => Uncover(Cover(nodes, c), c) = nodes

\* in the middle of a search, one column is covered and another, not covered,
\* still has a row with entries in other columns, so that covering it
\* changes links and sizes
C20_Witness ==
    /\ status = "running"
    /\ nodes # Pristine
    /\ \E c \in ColNodes :
          /\ Uncovered(nodes, c)
          /\ \E node \in ColumnList(nodes, c, nodes.D[c]) : nodes.R[node] # node
          /\ Cover(nodes, c) # nodes

\* ---------------------------------------------------------------- ArrayDLX claims
\* ArrayDLX(...) returned an instance
Built == call.method = "ArrayDLX" /\ outcome.err = "ok"

\* the names, among names, of the columns of the block that hold a 1 in row i,
\* in column order
OnesOf(block, i, names) ==
    LET idx == SetToSeq({j \in 1..block.shape[2] : block.data[i][j] = 1})
    IN [k \in 1..Len(idx) |-> names[idx[k]]]

\* C18: in an ArrayDLX built from A and A_secondary, entries[row] lists, for
\* every row, the names of the primary columns holding a 1 in that row, in
\* column order, followed by those of the secondary columns; and the row
\* names, primary and secondary column names that were supplied are the
\* instance's, unchanged.
C18_ArrayEntries ==
    Built =>
        /\ \A i \in 1..call.A.shape[1] :
              entries[row_names[i]] =
                  OnesOf(call.A, i, col_names_primary)
                  \o (IF call.A_secondary = None THEN <<>>
                      ELSE OnesOf(call.A_secondary[1], i, col_names_secondary))
        /\ call.row_names # None => row_names = call.row_names[1]
        /\ call.col_names # None => col_names_primary = call.col_names[1]
        /\ call.col_names_secondary # None =>
              col_names_secondary = call.col_names_secondary[1]

\* the instance of test_translation: A = [[1, 0], [0, 1]], A_secondary =
\* [[1], [0]], all names supplied
C18_Witness ==
    /\ Built
    /\ call.A.data = << <<1, 0>>, <<0, 1>> >>
    /\ call.A_secondary = Some([shape |-> <<2, 1>>, data |-> << <<1>>, <<0>> >>])
    /\ row_names = <<"row1", "row2">>
    /\ col_names_primary = <<"col1", "col2">>
    /\ col_names_secondary = <<"col3">>
    /\ entries["row1"] = <<"col1", "col3">>
    /\ entries["row2"] = <<"col2">>

\* C19: when no column names are supplied the primary columns are named
\* "primary_0", "primary_1", ... and the secondary columns "secondary_0",
\* "secondary_1", ...; when A_secondary is not supplied it is an array of as
\* many rows as A and no column.
C19_Defaults ==
    Built =>
        /\ call.col_names = None =>
              col_names_primary =
                  [x \in 1..call.A.shape[2] |-> "primary_" \o IntStr(x - 1)]
        /\ call.col_names_secondary = None =>
              col_names_secondary =
                  [x \in 1..Len(col_names_secondary) |-> "secondary_" \o IntStr(x - 1)]
        /\ call.A_secondary = None =>
              A_secondary = Some(Zeros(call.A.shape[1], 0))

\* ---------------------------------------------------------------- linkage claims
RECURSIVE HeaderSeq(_, _)
\* the headers met from col_node on by following R until the root is reached
HeaderSeq(m, col_node) ==
    IF col_node = Root THEN <<>> ELSE <<col_node>> \o HeaderSeq(m, m.R[col_node])

\* the header list: the headers reachable from the root, left to right
HeaderList(m) == HeaderSeq(m, m.R[Root])

\* the Node objects: the nodes that are neither the root nor a header
EntryNodes == {x \in DOMAIN nodes.L : x > Len(col_names_primary) + Len(col_names_secondary)}

LinkedLR(m, n) == m.R[m.L[n]] = n /\ m.L[m.R[n]] = n

LinkedUD(m, n) == m.D[m.U[n]] = n /\ m.U[m.D[n]] = n

C22_SizeAccurate ==
    \A c \in ColNodes : nodes.size[c] = Cardinality(ColumnList(nodes, c, nodes.D[c]))

\* in the middle of a search a secondary column and a primary column have
\* lost an entry each and still hold one
C22_Witness ==
    /\ status = "running"
    /\ \E c, d \in ColNodes :
          /\ c <= Len(col_names_primary)
          /\ d > Len(col_names_primary)
          /\ nodes.size[c] = 1 /\ Pristine.size[c] = 2
          /\ nodes.size[d] = 1 /\ Pristine.size[d] = 2

\* ---------------------------------------------------------------- header list claims
RECURSIVE RowSegment(_, _, _)
\* the nodes of a row from node from on, following R, up to node to (excluded)
RowSegment(m, from, to) ==
    IF from = to THEN {} ELSE {from} \cup RowSegment(m, m.R[from], to)

\* the nodes whose columns a _search frame has covered and not yet uncovered:
\* none before its column is chosen; then its column header; and of the
\* row-mates of node those passed by the cover loop (lines 219-222) and not
\* yet passed by the uncover loop (lines 228-231)
FrameCovers(m, f) ==
    CASE f.pc \in {"start", "yielded"} -> {}
      [] f.pc = "loop" -> {f.col_node}
      [] f.pc = "cover_row" -> {f.col_node} \cup RowSegment(m, m.R[f.node], f.ptr)
      [] f.pc = "recurse" -> {f.col_node} \cup RowSegment(m, m.R[f.node], f.node)
      [] f.pc = "uncover_row" -> {f.col_node} \cup RowSegment(m, m.R[f.node], m.R[f.ptr])

\* the headers of the columns that are covered
CoveredCols ==
    UNION {{IF x \in ColNodes THEN x ELSE nodes.column[x] : x \in FrameCovers(nodes, frames[k])} :
              k \in 1..Len(frames)}

\* C23: after construction and between the cover and uncover operations of
\* the search, a column header is reachable from the root through the header
\* list if and only if it is primary and not covered; no secondary header is
\* ever in the list; and the primary headers appear in input order.
C23_HeaderList ==
    /\ \A c \in ColNodes :
          c \in Range(HeaderList(nodes))
              <=> (c <= Len(col_names_primary) /\ c \notin CoveredCols)
    /\ \A k, l \in 1..Len(HeaderList(nodes)) :
          k < l => HeaderList(nodes)[k] < HeaderList(nodes)[l]

\* a secondary column has been covered and uncovered again, a primary column
\* is covered, and another primary header is in the list
C23_Witness ==
    /\ status = "running"
    /\ Len(frames) = 1
    /\ Top.pc = "uncover_row"
    /\ Top.ptr = Top.node
    /\ \E x \in RowMates(nodes, Top.node, nodes.R[Top.node]) :
          nodes.column[x] > Len(col_names_primary)
    /\ Len(HeaderList(nodes)) = 1

\* C24: when the header list is not empty, _choose_column returns a header
\* of the list whose size is the minimum over the list, and every header met
\* before it when going right from the root has a larger size.
C24_ChooseColumn ==
    nodes.R[Root] # Root =>
        LET list == HeaderList(nodes)
            chosen == ChooseColumn(nodes)
        IN /\ chosen \in Range(list)
           /\ \A k \in 1..Len(list) : nodes.size[chosen] <= nodes.size[list[k]]
           /\ \A k \in 1..(IndexOf(list, chosen) - 1) :
                 nodes.size[list[k]] > nodes.size[chosen]

\* of three primary columns of sizes 2, 1, 1 the search has chosen and
\* covered the second
C24_Witness ==
    /\ status = "running"
    /\ Len(frames) = 1
    /\ Top.pc = "loop"
    /\ Top.col_node = 2
    /\ Len(col_names_primary) = 3
    /\ Pristine.size = <<2, 1, 1>>

\* ---------------------------------------------------------------- suspension claims
RECURSIVE ApplyPath(_, _)
\* the covers of the frames from the k-th on, applied in the order the search
\* makes them: the chosen column, then the columns of the row-mates of the
\* chosen row
ApplyPath(m, k) ==
    IF k > Len(frames) \/ frames[k].pc = "yielded" THEN m
    ELSE LET m1 == Cover(m, frames[k].col_node)
             m2 == CoverMates(m1, frames[k].node, m1.R[frames[k].node])
         IN ApplyPath(m2, k + 1)

\* C25: whenever the enumeration is suspended at an emitted solution all the
\* covers made on the path to it are applied: the header list is empty, the
\* matrix is the constructed one with the covers of the path applied in
\* order, and every column in which a row of the emitted solution has an
\* entry is covered.
C25_CoversApplied ==
    status = "suspended" =>
        /\ HeaderList(nodes) = <<>>
        /\ nodes = ApplyPath(Pristine, 1)
        /\ LET sol == emitted[Len(emitted)]
           IN \A k \in 1..Len(sol) : \A c \in RowCols(sol[k]) :
                 ColNodeOf(col_names_primary, col_names_secondary, c) \in CoveredCols

\* the enumeration is suspended at a solution of two rows, one of which has
\* an entry in a secondary column
C25_Witness ==
    /\ status = "suspended"
    /\ Len(emitted[Len(emitted)]) = 2
    /\ \E k \in 1..2 :
          RowCols(emitted[Len(emitted)][k]) \cap Range(col_names_secondary) # {}

\* ---------------------------------------------------------------- termination claims
\* some set of rows with primary entries is an exact cover of the schema
HasExactCover ==
    \E S \in SUBSET Range(row_names) : ExactCover(S) /\ \A r \in S : HasPrimaryEntry(r)

\* how far a _search frame has got: the node of its column it is at (the
\* nodes of a column are met in creation order, the header last), the
\* statement it is at, and the row-mates its cover or uncover loop has passed
FrameProgress(m, f) ==
    LET key == IF f.node = f.col_node THEN Cardinality(DOMAIN m.L) ELSE f.node
        mates == Cardinality(RowMates(m, f.node, m.R[f.node]))
    IN CASE f.pc = "start" -> <<0, 0, 0>>
         [] f.pc = "yielded" -> <<0, 1, 0>>
         [] f.pc = "loop" -> <<key, 0, 0>>
         [] f.pc = "cover_row" -> <<key, 1, Cardinality(RowSegment(m, m.R[f.node], f.ptr))>>
         [] f.pc = "recurse" -> <<key, 2, 0>>
         [] f.pc = "uncover_row" ->
                <<key, 3, mates - Cardinality(RowSegment(m, m.R[f.node], m.R[f.ptr]))>>

TripleLess(x, y) ==
    \/ x[1] < y[1]
    \/ x[1] = y[1] /\ x[2] < y[2]
    \/ x[1] = y[1] /\ x[2] = y[2] /\ x[3] < y[3]

\* the frames fr2 are further on in the depth-first search than the frames fr1
Further(m1, fr1, m2, fr2) ==
    \E k \in 1..Len(fr1) :
        /\ k <= Len(fr2)
        /\ \A l \in 1..(k - 1) : FrameProgress(m1, fr1[l]) = FrameProgress(m2, fr2[l])
        /\ TripleLess(FrameProgress(m1, fr1[k]), FrameProgress(m2, fr2[k]))

\* every step of an enumeration either ends it or takes the search further
\* on, so that an enumeration over the finitely many positions of the search
\* that is pulled repeatedly runs to exhaustion; and a running enumeration is
\* always at a statement that can be executed
EnumerationAdvances ==
    [][/\ Step => (status' = "exhausted" \/ Further(nodes, frames, nodes', frames'))
       /\ status' = "running" => Top'.pc \in {"start", "loop", "cover_row", "uncover_row"}]_vars

\* on a schema without exact cover a full enumeration has emitted nothing
NoCoverNothingEmitted == (status = "exhausted" /\ ~HasExactCover) => emitted = <<>>

\* C26: an enumeration that is pulled repeatedly ends without an error, and
\* when there is no exact cover it ends having emitted no solution: on a
\* board whose pieces are all primary and cannot be placed so as to cover
\* every square once (as the 3x3 board with small-L, T and tromino),
\* solutions() ends normally and has yielded nothing.
C26_NoSolutionNotAnError ==
    (/\ Ended
     /\ pieces_primary # <<>>
     /\ pieces_secondary = <<>>
     /\ pieces_tertiary = <<>>
     /\ atoms_secondary = <<>>
     /\ ValidChoices = {}) => (board_pc = "done" /\ yielded = <<>>)

\* ---------------------------------------------------------------- buffer claims
\* the frames that have appended the row of their node and not popped it yet
Branched == SelectSeq(frames, LAMBDA f : f.pc \in {"cover_row", "recurse", "uncover_row"})

\* the row names chosen on the current branch of the search, outermost first
BranchRows == [k \in 1..Len(Branched) |-> nodes.row[Branched[k].node]]

\* C27: at every point of an enumeration the partial-solution buffer holds
\* exactly the row names chosen on the current branch of the search, and its
\* length does not exceed the number of primary columns.
C27_PartialSolution ==
    /\ partial_solution = BranchRows
    /\ Len(partial_solution) <= Len(col_names_primary)

\* the search is two rows deep, in the third call of _search, on a schema of
\* two primary columns
C27_Witness ==
    /\ status = "running"
    /\ Len(frames) = 3
    /\ Top.pc = "start"
    /\ Len(partial_solution) = 2
    /\ Len(col_names_primary) = 2

\* ---------------------------------------------------------------- get_atoms claims
\* the cell the offset (i, j) is sent to by each of the eight orientations,
\* before the translation: the flip of "F" followed by the rotation
Oriented(i, j, orientation) ==
    CASE orientation = "U" -> <<i, j>>
      [] orientation = "R" -> <<j, -i>>
      [] orientation = "D" -> <<-i, -j>>
      [] orientation = "L" -> <<-j, i>>
      [] orientation = "FU" -> <<-i, j>>
      [] orientation = "FR" -> <<j, i>>
      [] orientation = "FD" -> <<i, -j>>
      [] orientation = "FL" -> <<-j, -i>>

\* C28: get_atoms returns one atom per shape offset, in order: the offset
\* flipped (i, j) -> (-i, j) when the orientation starts with F, rotated by
\* U, R, D or L as (i, j), (j, -i), (-i, -j), (-j, i), and translated by
\* (pi, pj).
C28_GetAtoms ==
    call.method = "get_atoms" =>
        /\ outcome.err = "ok"
        /\ Len(outcome.val) = Len(call.piece.coords)
        /\ \A k \in 1..Len(call.piece.coords) :
              LET c == Oriented(call.piece.coords[k][1], call.piece.coords[k][2],
                                call.placement.orientation)
              IN outcome.val[k] = GridSquare(c[1] + call.placement.i,
                                             c[2] + call.placement.j)

\* the small L piece placed at (2, 1) flipped and turned right: its offsets
\* (0, 0), (1, 0), (0, 1) land on (2, 1), (2, 2), (3, 1)
C28_Witness ==
    /\ call.method = "get_atoms"
    /\ call.piece = GridSmallLPiece("L")
    /\ call.placement = GridPlacement(2, 1, "FR")
    /\ outcome.val = <<GridSquare(2, 1), GridSquare(2, 2), GridSquare(3, 1)>>

\* ---------------------------------------------------------------- exactness claims
\* the set of rows is one the enumeration has to emit: an exact cover made of
\* rows with an entry in some primary column
Emittable(S) == ExactCover(S) /\ \A r \in S : HasPrimaryEntry(r)

\* C29: after one full enumeration a set of rows has been emitted once if
\* each of its rows has an entry in some primary column and together they hit
\* every primary column exactly once and every secondary column at most
\* once, and not at all otherwise; no emitted list repeats a row; a schema
\* without primary columns has yielded the empty list and nothing else.
C29_Exact ==
    status = "exhausted" =>
        /\ \A i \in 1..Len(emitted) : Cardinality(Range(emitted[i])) = Len(emitted[i])
        /\ \A S \in SUBSET Range(row_names) :
              TimesEmitted(S) = IF Emittable(S) THEN 1 ELSE 0
        /\ col_names_primary = <<>> => emitted = << <<>> >>

\* ---------------------------------------------------------------- missing row claims
\* the list holds no name twice
Distinct(names) == Cardinality(Range(names)) = Len(names)

\* the arguments of the call pass the distinctness, disjointness and subset
\* checks of lines 98-119
PassesChecks ==
    /\ Distinct(call.row_names)
    /\ Distinct(call.col_names_primary)
    /\ Distinct(call.col_names_secondary)
    /\ Range(call.col_names_primary) \cap Range(call.col_names_secondary) = {}
    /\ DOMAIN call.entries \subseteq Range(call.row_names)
    /\ \A r \in DOMAIN call.entries :
          Range(call.entries[r])
              \subseteq Range(call.col_names_primary) \cup Range(call.col_names_secondary)

\* C30: a DLX(...) call whose names pass every distinctness, disjointness and
\* subset check but with a row name that is no key of entries fails with a
\* KeyError naming such a row, raised while the matrix is built; the row is
\* not taken for an empty row and no instance exists afterwards.
C30_MissingRowFails ==
    (/\ call.method = "DLX"
     /\ PassesChecks
     /\ Range(call.row_names) \ DOMAIN call.entries # {})
        => /\ outcome.err = "KeyError"
           /\ outcome.val \in Range(call.row_names) \ DOMAIN call.entries
           /\ NoDlx

\* DLX(["row", "row1"], ["col1"], [], {"row": ["col1"]}) has failed with
\* KeyError: 'row1'
C30_Witness ==
    /\ call.method = "DLX"
    /\ call.row_names = <<"row", "row1">>
    /\ call.col_names_primary = <<"col1">>
    /\ DOMAIN call.entries = {"row"}
    /\ call.entries["row"] = <<"col1">>
    /\ outcome = [err |-> "KeyError", val |-> "row1"]

====
